---- MODULE Spec2Model ----
(***************************************************************************)
(* Distributed token-bucket rate limiter: the atomic bucket script run by  *)
(* the store (token_bucket.lua), and the limiter client that invokes it    *)
(* (TokenBucket.Allow / Peek).                                             *)
(*                                                                         *)
(* Numbers.  Time is counted in ticks, TicksPerSec ticks to the second.    *)
(* Token levels are counted in units of 1/TicksPerSec token, so that       *)
(* elapsed * rate (ticks * tokens per second) is an exact token level.     *)
(* The script's float arithmetic is modelled as exact arithmetic on these  *)
(* units; the one place where the script loses precision that matters at   *)
(* this scale is tostring(last_ts): Lua formats a number with "%.14g", and *)
(* an epoch timestamp (ten integer digits) keeps four decimals, 0.1 ms.    *)
(* A tick is 1/TsGrain of that resolution.                                 *)
(***************************************************************************)
EXTENDS Integers, Sequences, FiniteSets, TLC

VARIABLES
    defaultBurst,   \* TokenBucket.defaultBurst
    defaultRate,    \* TokenBucket.defaultRate
    clock,          \* wall clock shared by the callers and the store, ticks
    store,          \* the store: redis key -> hash {tokens, last_ts} and expiry
    call,           \* per caller: the Allow/Peek call it is executing
    ncalls,         \* number of Allow/Peek calls issued so far
    lastExec,       \* history: the most recent execution of the script
    run,            \* history: per key, length of the current burst countdown
    lastCapacity,   \* history: per key, the capacity of its latest execution
    touched,        \* history: the caller keys the script has run for
    parseIn,        \* reply handed to the reply decoder (decoder specification)
    parseOut,       \* what the decoder made of it
    reachable,      \* whether the store answers (Ping, script.Run)
    rpc,            \* per caller: the RPC the server is handling for it
    metric,         \* the counters of package metrics
    execs,          \* history: per caller, script executions its call caused
    granted,        \* history: per key, tokens granted so far
    firstAt         \* history: per key, the earliest now of its executions, or -1

vars == <<defaultBurst, defaultRate, clock, store, call, ncalls,
          lastExec, run, lastCapacity, touched, parseIn, parseOut,
          reachable, rpc, metric, execs, granted, firstAt>>

\* what the limiter client leaves alone
serverVars == <<reachable, rpc, metric>>
\* what only an execution of the script changes
grantVars == <<granted, firstAt>>

----------------------------------------------------------------------------
(* Bounds and scales *)

MaxCalls == 2
MaxBurstCalls == 4
TsGrain == 3

TtlBuffer == 60

TicksPerSec == 10000 * TsGrain

Ms(n) == (n * TicksPerSec) \div 1000

Keys == {"a", "b"}
Callers == {"c1", "c2", "c3"}

DefaultBursts == {2}
DefaultRates == {-1, 0, 1}
TokenArgs == {0, 1, 2}
BurstArgs == {0, 3}
RateArgs == {0, 10}

\* the calls issued: the plain call Allow(key, 1, 0, 0) on either key, and on
\* key "a" every call that differs from it in one argument
Plain == <<"a", 1, 0, 0>>
AllowInputs ==
    {in \in Keys \X TokenArgs \X BurstArgs \X RateArgs :
        Cardinality({i \in 1..4 : in[i] # Plain[i]}) <= 1}

Sec(n) == n * TicksPerSec

Instants == {0, 2, Ms(100) + 2, Sec(65)}
BurstInstants == {0, 1, 2, Ms(100) + 2, Ms(100) + 5, Ms(200) + 2, Sec(65)}

----------------------------------------------------------------------------
(* Arithmetic helpers *)

Max(a, b) == IF a >= b THEN a ELSE b
Min(a, b) == IF a <= b THEN a ELSE b

\* floor(a / b) and ceil(a / b) for b # 0, as math.floor / math.ceil see them
FloorDiv(a, b) == IF b > 0 THEN a \div b ELSE (0 - a) \div (0 - b)
CeilDiv(a, b) == 0 - FloorDiv(0 - a, b)

\* a token count in level units
Units(n) == n * TicksPerSec

\* a rational number of seconds, denominator positive
Ratio(n, d) == IF d > 0 THEN [n |-> n, d |-> d] ELSE [n |-> 0 - n, d |-> 0 - d]
Zero == [n |-> 0, d |-> 1]

----------------------------------------------------------------------------
(* The store *)

\* a plausible slip: the prefix alone, the key left out of the format
RedisKeyShared(key) == "rl:"

RedisKey(key) == "rl:" \o key
RedisKeys == {RedisKey(k) : k \in Keys}

NoExpiry == -1
NoBucket == [present |-> FALSE, tokens |-> 0, last_ts |-> 0, expire_at |-> NoExpiry]

\* a key whose expiry time has come is gone, whether or not it was reaped yet
Live(b, t) == b.present /\ (b.expire_at = NoExpiry \/ t < b.expire_at)

\* tostring(last_ts): "%.14g" keeps the timestamp to the nearest TsGrain ticks
TostringTs(t) == ((2 * t + TsGrain) \div (2 * TsGrain)) * TsGrain

----------------------------------------------------------------------------
(* Values of a reply, as the client library hands them to Allow *)

IntReply(v) == [kind |-> "int", n |-> v, d |-> 1, numeric |-> TRUE]
\* a bulk string holding the decimal text of the number n/d
NumStrReply(q) == [kind |-> "str", n |-> q.n, d |-> q.d, numeric |-> TRUE]
\* a bulk string that is not the text of a number
TextReply == [kind |-> "str", n |-> 0, d |-> 1, numeric |-> FALSE]
NilReply == [kind |-> "nil", n |-> 0, d |-> 1, numeric |-> FALSE]

ArrayReply(elems) == [array |-> TRUE, elems |-> elems]
NoReply == [array |-> FALSE, elems |-> << >>]

----------------------------------------------------------------------------
(* token_bucket.lua, one step per statement group; at is the store's time *)

\* local bucket = redis.call("HMGET", ...); if tokens == nil then ... end
InitTokens(b, capacity, at) == IF Live(b, at) THEN b.tokens ELSE Units(capacity)
InitLastTs(b, now, at) == IF Live(b, at) THEN b.last_ts ELSE now

\* a plausible slip: timestamps cut to whole seconds
ElapsedWholeSeconds(b, now, at) ==
    (Max(0, now - InitLastTs(b, now, at)) \div TicksPerSec) * TicksPerSec

\* Refill tokens based on elapsed time
Elapsed(b, now, at) == Max(0, now - InitLastTs(b, now, at))
Refill(b, capacity, rate, now, at) ==
    Min(Units(capacity), InitTokens(b, capacity, at) + Elapsed(b, now, at) * rate)

\* a plausible slip: a denied request takes what is there
ConsumeAvailable(tokens, requested) ==
    IF tokens >= Units(requested)
    THEN [tokens |-> tokens - Units(requested), allowed |-> 1]
    ELSE [tokens |-> Min(tokens, 0), allowed |-> 0]

\* a plausible slip: > for >=
ConsumeStrict(tokens, requested) ==
    IF tokens > Units(requested)
    THEN [tokens |-> tokens - Units(requested), allowed |-> 1]
    ELSE [tokens |-> tokens, allowed |-> 0]

\* Attempt to consume tokens
Consume(tokens, requested) ==
    IF tokens >= Units(requested)
    THEN [tokens |-> tokens - Units(requested), allowed |-> 1]
    ELSE [tokens |-> tokens, allowed |-> 0]

\* retry_after = deficit / rate, in seconds (rate # 0)
RetryAfter(tokens, rate, requested) ==
    IF tokens >= Units(requested) THEN Zero
    ELSE Ratio(Units(requested) - tokens, rate * TicksPerSec)

\* math.ceil(reset_at), in seconds (rate # 0); now is in ticks
ResetAt(tokens, capacity, rate, now) ==
    IF tokens < Units(capacity)
    THEN CeilDiv(now * rate + (Units(capacity) - tokens), rate * TicksPerSec)
    ELSE CeilDiv(now, TicksPerSec)

\* local ttl = math.ceil((capacity / rate) + 60); with rate = 0 the quotient
\* is inf, -inf or nan and so is ttl
Ttl(capacity, rate) ==
    IF rate = 0 THEN [finite |-> FALSE, secs |-> 0]
    ELSE [finite |-> TRUE, secs |-> CeilDiv(capacity, rate) + TtlBuffer]

\* redis.call("HSET", key, "tokens", tostring(tokens), "last_ts", tostring(last_ts))
\* keeps the expiry the key has
Hset(b, tokens, last_ts, at) ==
    [present |-> TRUE, tokens |-> tokens, last_ts |-> TostringTs(last_ts),
     expire_at |-> IF Live(b, at) THEN b.expire_at ELSE NoExpiry]

\* redis.call("EXPIRE", key, ttl): the store takes an integer number of
\* seconds, and a timeout that is not positive deletes the key
Expire(b, ttl, at) ==
    IF ttl.secs <= 0 THEN NoBucket
    ELSE [b EXCEPT !.expire_at = at + ttl.secs * TicksPerSec]

Script(b, capacity, rate, now, requested, at) ==
    LET refilled == Refill(b, capacity, rate, now, at)
        taken    == Consume(refilled, requested)
        ttl      == Ttl(capacity, rate)
        written  == Hset(b, taken.tokens, now, at)
    IN  IF ~ttl.finite
        THEN \* EXPIRE raises "value is not an integer or out of range":
             \* the script stops with an error after the HSET
             [err |-> TRUE, bucket |-> written, reply |-> NoReply,
              allowed |-> taken.allowed, refilled |-> refilled]
        ELSE [err |-> FALSE, bucket |-> Expire(written, ttl, at),
              reply |-> ArrayReply(<<
                  IntReply(taken.allowed),
                  IntReply(FloorDiv(taken.tokens, TicksPerSec)),
                  IntReply(capacity),
                  IntReply(ResetAt(taken.tokens, capacity, rate, now)),
                  NumStrReply(RetryAfter(refilled, rate, requested)) >>),
              allowed |-> taken.allowed, refilled |-> refilled]

----------------------------------------------------------------------------
(* The limiter client: TokenBucket.Allow and TokenBucket.Peek *)

\* a plausible slip: < for <= on the overrides
AllowArgsStrict(tokens, burst, rate) ==
    [requested |-> IF tokens <= 0 THEN 1 ELSE tokens,
     capacity  |-> IF burst < 0 THEN defaultBurst ELSE burst,
     rate      |-> IF rate < 0 THEN defaultRate ELSE rate]

\* Allow: if tokens <= 0 {...}; if burst <= 0 {...}; if rate <= 0 {...}
AllowArgs(tokens, burst, rate) ==
    [requested |-> IF tokens <= 0 THEN 1 ELSE tokens,
     capacity  |-> IF burst <= 0 THEN defaultBurst ELSE burst,
     rate      |-> IF rate <= 0 THEN defaultRate ELSE rate]

\* Peek: resolves the overrides, then return tb.Allow(ctx, key, 0, burst, rate)
PeekArgs(burst, rate) ==
    AllowArgs(0,
              IF burst <= 0 THEN defaultBurst ELSE burst,
              IF rate <= 0 THEN defaultRate ELSE rate)

\* a plausible slip: the requested tokens passed on as given
ScriptArgsRaw(op, tokens, burst, rate) ==
    [AllowArgs(tokens, burst, rate) EXCEPT !.requested = tokens]

ScriptArgs(op, tokens, burst, rate) ==
    IF op = "Peek" THEN PeekArgs(burst, rate) ELSE AllowArgs(tokens, burst, rate)

NoResult ==
    [returned |-> FALSE, err |-> FALSE, Allowed |-> FALSE, Remaining |-> 0,
     Limit |-> 0, ResetAt |-> 0, RetryAfter |-> Zero]
ErrResult == [NoResult EXCEPT !.returned = TRUE, !.err = TRUE]

\* vals[i].(int64) with the ok flag dropped: the zero value unless an integer
AsInt64(e) == IF e.kind = "int" THEN e.n ELSE 0

\* switch v := vals[4].(type): ParseFloat of a string (error dropped), or
\* float64 of an integer, else the zero value
AsFloat(e) ==
    IF e.kind = "str" /\ e.numeric THEN [n |-> e.n, d |-> e.d]
    ELSE IF e.kind = "int" THEN [n |-> e.n, d |-> 1]
    ELSE Zero

\* Allow, from "if err != nil" to the return of the Result
ParseReply(evalErr, raw) ==
    IF evalErr THEN ErrResult
    ELSE IF ~raw.array \/ Len(raw.elems) < 5 THEN ErrResult
    ELSE [returned |-> TRUE, err |-> FALSE,
          Allowed    |-> AsInt64(raw.elems[1]) = 1,
          Remaining  |-> AsInt64(raw.elems[2]),
          Limit      |-> AsInt64(raw.elems[3]),
          ResetAt    |-> AsInt64(raw.elems[4]),
          RetryAfter |-> AsFloat(raw.elems[5])]

----------------------------------------------------------------------------
(* State *)

NoExec ==
    [key |-> "", op |-> "", capacity |-> 0, rate |-> 0, now |-> 0,
     requested |-> 0, before |-> NoBucket, live |-> FALSE, wait |-> -1,
     emptyWait |-> -1,
     elapsed |-> 0, refilled |-> 0, allowed |-> 0, err |-> FALSE,
     after |-> NoBucket, retryDue |-> -1, retried |-> FALSE]

NoRun == [n |-> 0, capacity |-> 0]

Idle ==
    [pc |-> "idle", op |-> "", key |-> "", tokens |-> 0, burst |-> 0,
     rate |-> 0, redisKey |-> "", capacity |-> 0, rateArg |-> 0, now |-> 0,
     requested |-> 0, evalErr |-> FALSE, raw |-> NoReply, pos |-> 0,
     first |-> FALSE, level |-> 0, result |-> NoResult]

\* the server is handling no RPC for the caller
NoRpc ==
    [pc |-> "idle", op |-> "", key |-> "", code |-> "", body |-> NoResult,
     status |-> "", redisStatus |-> ""]

\* metrics.RequestsTotal by outcome, metrics.InternalErrors, metrics.RedisErrors
\* and the number of observations of metrics.RedisLatency
NoMetric ==
    [allowed |-> 0, denied |-> 0, internalErrors |-> 0, redisErrors |-> 0,
     latency |-> 0]

\* New(rdb, defaultBurst, defaultRate) on an empty store
New(burst, rate) ==
    /\ defaultBurst = burst
    /\ defaultRate = rate
    /\ clock = 0
    /\ store = [k \in RedisKeys |-> NoBucket]
    /\ call = [c \in Callers |-> Idle]
    /\ ncalls = 0
    /\ lastExec = NoExec
    /\ run = [k \in RedisKeys |-> NoRun]
    /\ lastCapacity = [k \in RedisKeys |-> 0]
    /\ touched = {}
    /\ reachable = TRUE
    /\ rpc = [c \in Callers |-> NoRpc]
    /\ metric = NoMetric
    /\ execs = [c \in Callers |-> 0]
    /\ granted = [k \in RedisKeys |-> 0]
    /\ firstAt = [k \in RedisKeys |-> -1]

NoDecoding == parseIn = NoReply /\ parseOut = NoResult

Init ==
    /\ \E burst \in DefaultBursts, rate \in DefaultRates : New(burst, rate)
    /\ NoDecoding

----------------------------------------------------------------------------
(* Actions *)

\* the caller's side of Allow/Peek up to script.Run: resolve the arguments,
\* prefix the key, read the clock, send
Send(c, op, key, tokens, burst, rate, limit) ==
    /\ call[c].pc = "idle"
    /\ ncalls < limit
    /\ LET a == ScriptArgs(op, tokens, burst, rate)
       IN  call' = [call EXCEPT ![c] =
                [Idle EXCEPT !.pc = "sent", !.op = op, !.key = key,
                             !.tokens = tokens, !.burst = burst, !.rate = rate,
                             !.redisKey = RedisKey(key),
                             !.capacity = a.capacity, !.rateArg = a.rate,
                             !.now = clock, !.requested = a.requested]]
    /\ ncalls' = ncalls + 1
    /\ execs' = [execs EXCEPT ![c] = 0]
    /\ UNCHANGED <<defaultBurst, defaultRate, clock, store, lastExec, run,
                   lastCapacity, touched, parseIn, parseOut, reachable,
                   metric, grantVars>>

\* TokenBucket.Allow called directly, as the tests do
AllowCall(c, key, tokens, burst, rate, limit) ==
    /\ rpc[c].pc # "limiter"
    /\ Send(c, "Allow", key, tokens, burst, rate, limit)
    /\ UNCHANGED rpc

\* TokenBucket.Peek called directly
PeekCall(c, key, burst, rate, limit) ==
    /\ rpc[c].pc # "limiter"
    /\ Send(c, "Peek", key, 0, burst, rate, limit)
    /\ UNCHANGED rpc

\* position of an execution in a burst countdown: single-token Allow calls
\* on a key from its creation on, same capacity, no elapsed time measured
RunNext(r, c, b) ==
    IF c.op = "Allow" /\ c.requested = 1 /\ c.rateArg > 0 /\ c.capacity > 0
    THEN IF ~Live(b, clock) THEN [n |-> 1, capacity |-> c.capacity]
         ELSE IF r.n >= 1 /\ r.capacity = c.capacity /\ Elapsed(b, c.now, clock) = 0
              THEN [r EXCEPT !.n = r.n + 1]
              ELSE NoRun
    ELSE NoRun

\* history: when the execution before this one, on the same key with the same
\* arguments, was a single-token Allow that found the bucket empty: the time
\* that call had waited since the execution before it; else -1
EmptyWait(e, c) ==
    IF /\ e.key = c.redisKey /\ e.op = "Allow" /\ c.op = "Allow"
       /\ e.requested = 1 /\ c.requested = 1
       /\ e.capacity = c.capacity /\ e.rate = c.rateArg
       /\ e.live /\ e.before.tokens = 0
    THEN e.wait ELSE -1

\* history: the time at which a denied call's retry_after has passed (the
\* script ran with rate > 0 and returned its reply); else -1
RetryDue(c, r) ==
    IF ~r.err /\ r.allowed = 0 /\ c.rateArg > 0
    THEN c.now + CeilDiv(Units(c.requested) - r.refilled, c.rateArg)
    ELSE -1

\* history: this call repeats the execution before it, a denied one on the
\* same key with the same arguments, exactly when its retry_after has passed
Retried(e, c) ==
    /\ e.key = c.redisKey /\ e.op = c.op
    /\ e.requested = c.requested /\ e.capacity = c.capacity
    /\ e.rate = c.rateArg
    /\ e.retryDue >= 0 /\ c.now = e.retryDue

\* the store runs the script for the call of c, in one step
Exec(c) ==
    /\ call[c].pc = "sent"
    /\ reachable
    /\ LET k == call[c].redisKey
           b == store[k]
           r == Script(b, call[c].capacity, call[c].rateArg, call[c].now,
                       call[c].requested, clock)
           p == RunNext(run[k], call[c], b)
       IN  /\ store' = [store EXCEPT ![k] = r.bucket]
           /\ run' = [run EXCEPT ![k] = p]
           /\ lastCapacity' = [lastCapacity EXCEPT ![k] = call[c].capacity]
           /\ touched' = touched \cup {call[c].key}
           /\ call' = [call EXCEPT ![c].pc = "replied", ![c].evalErr = r.err,
                                   ![c].raw = r.reply, ![c].pos = p.n,
                                   ![c].first = call[c].key \notin touched,
                                   ![c].level = r.bucket.tokens,
                                   ![c].tokens = 0, ![c].burst = 0,
                                   ![c].rate = 0]
           /\ lastExec' =
                [key |-> k, op |-> call[c].op, capacity |-> call[c].capacity,
                 rate |-> call[c].rateArg, now |-> call[c].now,
                 requested |-> call[c].requested, before |-> b,
                 live |-> Live(b, clock),
                 wait |-> IF lastExec.key = k THEN call[c].now - lastExec.now
                          ELSE -1,
                 emptyWait |-> EmptyWait(lastExec, call[c]),
                 elapsed |-> Elapsed(b, call[c].now, clock),
                 refilled |-> r.refilled, allowed |-> r.allowed,
                 err |-> r.err, after |-> r.bucket,
                 retryDue |-> RetryDue(call[c], r),
                 retried |-> Retried(lastExec, call[c])]
           /\ granted' = [granted EXCEPT ![k] =
                 IF r.allowed = 1 /\ ~r.err THEN @ + call[c].requested ELSE @]
           /\ firstAt' = [firstAt EXCEPT ![k] =
                 IF @ = -1 THEN call[c].now ELSE Min(@, call[c].now)]
    /\ execs' = [execs EXCEPT ![c] = @ + 1]
    /\ UNCHANGED <<defaultBurst, defaultRate, clock, ncalls, parseIn, parseOut,
                   serverVars>>

\* Allow after script.Run returned: if err != nil { metrics.RedisErrors.Inc() }
RedisErrorsInc(m, c) ==
    IF call[c].evalErr THEN [m EXCEPT !.redisErrors = @ + 1] ELSE m

\* Allow after script.Run returned: metrics.RedisLatency...Observe(elapsed),
\* then the error count
LimiterMetric(m, c) == RedisErrorsInc([m EXCEPT !.latency = @ + 1], c)

\* Allow after script.Run returned: decode the reply, return
Return(c) ==
    /\ call[c].pc = "replied"
    /\ call' = [call EXCEPT ![c] =
            [Idle EXCEPT !.op = call[c].op, !.capacity = call[c].capacity,
                         !.rateArg = call[c].rateArg,
                         !.requested = call[c].requested, !.pos = call[c].pos,
                         !.first = call[c].first, !.level = call[c].level,
                         !.result = ParseReply(call[c].evalErr, call[c].raw)]]
    /\ UNCHANGED <<defaultBurst, defaultRate, clock, store, ncalls, lastExec,
                   run, lastCapacity, touched, parseIn, parseOut, reachable,
                   execs, grantVars>>

\* a direct call of Allow/Peek returns to its caller
AllowReturn(c) ==
    /\ rpc[c].pc # "limiter"
    /\ Return(c)
    /\ metric' = LimiterMetric(metric, c)
    /\ UNCHANGED rpc

\* the store reaps a key whose expiry time has come
ExpireKey(k) ==
    /\ store[k].present
    /\ ~Live(store[k], clock)
    /\ store' = [store EXCEPT ![k] = NoBucket]
    /\ UNCHANGED <<defaultBurst, defaultRate, clock, call, ncalls, lastExec,
                   run, lastCapacity, touched, parseIn, parseOut, serverVars,
                   execs, grantVars>>

\* time passes
Tick(instants) ==
    /\ \E t \in instants :
          /\ t > clock
          /\ \A u \in instants : u > clock => t <= u
          /\ clock' = t
    /\ UNCHANGED <<defaultBurst, defaultRate, store, call, ncalls, lastExec,
                   run, lastCapacity, touched, parseIn, parseOut, serverVars,
                   execs, grantVars>>

\* caller c1 issues every input, caller c2 the plain call, concurrently
GenCallers == {"c1", "c2"}
InputsOf(c) == IF c = "c1" THEN AllowInputs ELSE {Plain}

Next ==
    \/ \E c \in GenCallers : \E in \in InputsOf(c) :
          AllowCall(c, in[1], in[2], in[3], in[4], MaxCalls)
    \/ \E key \in Keys : PeekCall("c1", key, 0, 0, MaxCalls)
    \/ \E c \in GenCallers : Exec(c)
    \/ \E c \in GenCallers : AllowReturn(c)
    \/ \E k \in RedisKeys : ExpireKey(k)
    \/ Tick(Instants)

Spec == Init /\ [][Next]_vars

----------------------------------------------------------------------------
(* Contention: every caller issues Allow(key, 1, C, 0) once, concurrently,  *)
(* on a limiter built as New(rdb, C, 0)                                     *)

ContendBursts == {1, 2}

InitContend == NoDecoding /\ \E burst \in ContendBursts : New(burst, 0)

AllowOnce(c) ==
    /\ call[c] = Idle
    /\ AllowCall(c, "a", 1, defaultBurst, 0, Cardinality(Callers))

NextContend ==
    \/ \E c \in Callers : AllowOnce(c)
    \/ \E c \in Callers : Exec(c)
    \/ \E c \in Callers : AllowReturn(c)
    \/ Tick(Instants)

SpecContend == InitContend /\ [][NextContend]_vars

----------------------------------------------------------------------------
(* Bursts: one caller issues Allow(key, 1, 0, 0) again and again while time *)
(* passes, on a limiter with a positive burst and rate                      *)

BurstSizes == {1, 2, 3}
BurstRates == {1, 10}

InitBurst ==
    /\ NoDecoding
    /\ \E burst \in BurstSizes, rate \in BurstRates : New(burst, rate)

NextBurst ==
    \/ AllowCall("c1", "a", 1, 0, 0, MaxBurstCalls)
    \/ Exec("c1")
    \/ AllowReturn("c1")
    \/ ExpireKey(RedisKey("a"))
    \/ Tick(BurstInstants)

SpecBurst == InitBurst /\ [][NextBurst]_vars

----------------------------------------------------------------------------
(* The reply decoder of Allow alone, on every reply of a bounded shape *)

ReplyValues == {IntReply(0), IntReply(1), NumStrReply(Ratio(1, 2)), TextReply, NilReply}

Tuples(n) == [1..n -> ReplyValues]

Replies == {NoReply} \cup {ArrayReply(t) : t \in Tuples(4) \cup Tuples(5)}

InitParse ==
    /\ New(2, 1)
    /\ parseIn \in Replies
    /\ parseOut = NoResult

\* raw, err := script.Run(...).Result() returned raw = parseIn and err = nil
Decode ==
    /\ ~parseOut.returned
    /\ parseOut' = ParseReply(FALSE, parseIn)
    /\ UNCHANGED <<defaultBurst, defaultRate, clock, store, call, ncalls,
                   lastExec, run, lastCapacity, touched, parseIn, serverVars,
                   execs, grantVars>>

NextParse == Decode

SpecParse == InitParse /\ [][NextParse]_vars

----------------------------------------------------------------------------
(* The server: RateLimitServer.Allow, Peek and HealthCheck in front of the  *)
(* limiter, with a store that can become unreachable                        *)

MaxServerCalls == 2

ServerCallers == {"c1", "c2"}
ServerKeys == {"", "a"}
ServerTokens == {1}
ServerInstants == {0, 2}
ServerRates == {0, 1}
PingErrors == {"dial tcp: connection refused", "i/o timeout"}

\* a plausible slip: the key is not looked at
KeyGivenAlways(key) == TRUE

\* if req.Key == "" { return nil, status.Error(codes.InvalidArgument, ...) }
KeyGiven(key) == key # ""

Rejected(op, key) ==
    [NoRpc EXCEPT !.pc = "done", !.op = op, !.key = key,
                  !.code = "InvalidArgument"]

\* RateLimitServer.Allow up to the store round trip of s.limiter.Allow
ServerAllow(c, key, tokens, burst, rate) ==
    /\ rpc[c].pc # "limiter"
    /\ call[c].pc = "idle"
    /\ IF KeyGiven(key)
       THEN /\ Send(c, "Allow", key, tokens, burst, rate, MaxServerCalls)
            /\ rpc' = [rpc EXCEPT ![c] =
                    [NoRpc EXCEPT !.pc = "limiter", !.op = "Allow", !.key = key]]
       ELSE /\ rpc' = [rpc EXCEPT ![c] = Rejected("Allow", key)]
            /\ UNCHANGED <<defaultBurst, defaultRate, clock, store, call,
                           ncalls, lastExec, run, lastCapacity, touched,
                           parseIn, parseOut, reachable, metric, execs,
                           grantVars>>

\* RateLimitServer.Peek up to the store round trip of s.limiter.Peek(key, 0, 0)
ServerPeek(c, key) ==
    /\ rpc[c].pc # "limiter"
    /\ call[c].pc = "idle"
    /\ IF KeyGiven(key)
       THEN /\ Send(c, "Peek", key, 0, 0, 0, MaxServerCalls)
            /\ rpc' = [rpc EXCEPT ![c] =
                    [NoRpc EXCEPT !.pc = "limiter", !.op = "Peek", !.key = key]]
       ELSE /\ rpc' = [rpc EXCEPT ![c] = Rejected("Peek", key)]
            /\ UNCHANGED <<defaultBurst, defaultRate, clock, store, call,
                           ncalls, lastExec, run, lastCapacity, touched,
                           parseIn, parseOut, reachable, metric, execs,
                           grantVars>>

\* a plausible slip: a failure of the limiter answered as a denial
ServerResponseDenies(op, key, res) ==
    [NoRpc EXCEPT !.pc = "done", !.op = op, !.key = key, !.code = "OK",
                  !.body = [res EXCEPT !.err = FALSE]]

\* the response of Allow / Peek to what the limiter returned
ServerResponse(op, key, res) ==
    IF res.err
    THEN [NoRpc EXCEPT !.pc = "done", !.op = op, !.key = key,
                       !.code = "Internal"]
    ELSE [NoRpc EXCEPT !.pc = "done", !.op = op, !.key = key, !.code = "OK",
                       !.body = IF op = "Peek"
                                THEN [res EXCEPT !.Allowed = FALSE,
                                                 !.RetryAfter = Zero]
                                ELSE res]

\* metrics.InternalErrors on failure; metrics.RequestsTotal by outcome (Allow)
ServerMetric(m, op, res) ==
    IF res.err THEN [m EXCEPT !.internalErrors = @ + 1]
    ELSE IF op # "Allow" THEN m
    ELSE IF res.Allowed THEN [m EXCEPT !.allowed = @ + 1]
    ELSE [m EXCEPT !.denied = @ + 1]

\* RateLimitServer.Allow / Peek from the return of the limiter on
ServerReturn(c) ==
    /\ rpc[c].pc = "limiter"
    /\ Return(c)
    /\ LET res == ParseReply(call[c].evalErr, call[c].raw)
       IN  /\ rpc' = [rpc EXCEPT ![c] = ServerResponse(rpc[c].op, rpc[c].key, res)]
           /\ metric' = ServerMetric(LimiterMetric(metric, c), rpc[c].op, res)

\* a plausible slip: a failed Ping answered as an RPC error
HealthCheckResponseFails(pingErr) ==
    IF pingErr # ""
    THEN [NoRpc EXCEPT !.pc = "done", !.op = "HealthCheck",
                       !.code = "Unavailable"]
    ELSE [NoRpc EXCEPT !.pc = "done", !.op = "HealthCheck", !.code = "OK",
                       !.status = "SERVING", !.redisStatus = "ok"]

\* RateLimitServer.HealthCheck, given err.Error() of Ping ("" for nil)
HealthCheckResponse(pingErr) ==
    IF pingErr # ""
    THEN [NoRpc EXCEPT !.pc = "done", !.op = "HealthCheck", !.code = "OK",
                       !.status = "NOT_SERVING", !.redisStatus = pingErr]
    ELSE [NoRpc EXCEPT !.pc = "done", !.op = "HealthCheck", !.code = "OK",
                       !.status = "SERVING", !.redisStatus = "ok"]

\* TokenBucket.Ping: tb.rdb.Ping(ctx).Err()
Ping == IF reachable THEN {""} ELSE PingErrors

HealthCheck(c) ==
    /\ rpc[c].pc # "limiter"
    /\ \E pingErr \in Ping :
          rpc' = [rpc EXCEPT ![c] = HealthCheckResponse(pingErr)]
    /\ UNCHANGED <<defaultBurst, defaultRate, clock, store, call, ncalls,
                   lastExec, run, lastCapacity, touched, parseIn, parseOut,
                   reachable, metric, execs, grantVars>>

\* script.Run fails without the script having run: the store is unreachable
ExecFail(c) ==
    /\ call[c].pc = "sent"
    /\ ~reachable
    /\ call' = [call EXCEPT ![c].pc = "replied", ![c].evalErr = TRUE,
                            ![c].raw = NoReply, ![c].tokens = 0,
                            ![c].burst = 0, ![c].rate = 0]
    /\ UNCHANGED <<defaultBurst, defaultRate, clock, store, ncalls, lastExec,
                   run, lastCapacity, touched, parseIn, parseOut, serverVars,
                   execs, grantVars>>

\* script.Run fails after the script has run: the reply does not arrive
ReplyLost(c) ==
    /\ call[c].pc = "replied"
    /\ ~reachable
    /\ ~call[c].evalErr
    /\ call' = [call EXCEPT ![c].evalErr = TRUE, ![c].raw = NoReply]
    /\ UNCHANGED <<defaultBurst, defaultRate, clock, store, ncalls, lastExec,
                   run, lastCapacity, touched, parseIn, parseOut, serverVars,
                   execs, grantVars>>

StoreDown ==
    /\ reachable
    /\ reachable' = FALSE
    /\ UNCHANGED <<defaultBurst, defaultRate, clock, store, call, ncalls,
                   lastExec, run, lastCapacity, touched, parseIn, parseOut,
                   rpc, metric, execs, grantVars>>

StoreUp ==
    /\ ~reachable
    /\ reachable' = TRUE
    /\ UNCHANGED <<defaultBurst, defaultRate, clock, store, call, ncalls,
                   lastExec, run, lastCapacity, touched, parseIn, parseOut,
                   rpc, metric, execs, grantVars>>

InitServer == NoDecoding /\ \E rate \in ServerRates : New(2, rate)

NextServer ==
    \/ \E c \in ServerCallers, key \in ServerKeys, tokens \in ServerTokens :
          ServerAllow(c, key, tokens, 0, 0)
    \/ \E c \in ServerCallers, key \in ServerKeys : ServerPeek(c, key)
    \/ \E c \in ServerCallers : Exec(c)
    \/ \E c \in ServerCallers : ExecFail(c)
    \/ \E c \in ServerCallers : ReplyLost(c)
    \/ \E c \in ServerCallers : ServerReturn(c)
    \/ \E c \in ServerCallers : HealthCheck(c)
    \/ StoreDown
    \/ StoreUp
    \/ Tick(ServerInstants)

SpecServer == InitServer /\ [][NextServer]_vars

----------------------------------------------------------------------------
(* Races: callers read the shared clock and issue Allow on one key of a     *)
(* limiter with burst 2 and rate 10/s; the store runs their calls in any    *)
(* order                                                                    *)

MaxRaceCalls == 4

RaceTokens == {1, 2}
RaceInstants == {0, Ms(100), Ms(200)}

InitRace == NoDecoding /\ New(2, 10)

NextRace ==
    \/ \E c \in Callers, tokens \in RaceTokens :
          AllowCall(c, "a", tokens, 0, 0, MaxRaceCalls)
    \/ \E c \in Callers : Exec(c)
    \/ \E c \in Callers : AllowReturn(c)
    \/ Tick(RaceInstants)

SpecRace == InitRace /\ [][NextRace]_vars

----------------------------------------------------------------------------
(* Retries: one caller issues Allow on one key and, when denied, may sleep  *)
(* for the retry_after it was given before it calls again                   *)

MaxRetryCalls == 3

RetryTokens == {1, 2, 3}
RetryBursts == {1, 2}
RetryRates == {1, 10}
RetryInstants == {0, 2, Ms(100), Sec(65)}

InitRetry ==
    /\ NoDecoding
    /\ \E burst \in RetryBursts, rate \in RetryRates : New(burst, rate)

\* the caller, denied at lastExec.now, sleeps until retry_after has passed
RetryWait ==
    /\ call["c1"].result.returned
    /\ ~call["c1"].result.err
    /\ ~call["c1"].result.Allowed
    /\ lastExec.retryDue > clock
    /\ clock' = lastExec.retryDue
    /\ UNCHANGED <<defaultBurst, defaultRate, store, call, ncalls, lastExec,
                   run, lastCapacity, touched, parseIn, parseOut, serverVars,
                   execs, grantVars>>

NextRetry ==
    \/ \E tokens \in RetryTokens :
          AllowCall("c1", "a", tokens, 0, 0, MaxRetryCalls)
    \/ Exec("c1")
    \/ AllowReturn("c1")
    \/ RetryWait
    \/ ExpireKey(RedisKey("a"))
    \/ Tick(RetryInstants)

SpecRetry == InitRetry /\ [][NextRetry]_vars

----------------------------------------------------------------------------
(* Counting: direct Allow and Peek calls against a store that can be away,  *)
(* lose a reply, fail in the script (rate 0) or answer with something that  *)
(* is not the script's 5-tuple                                              *)

MaxCountCalls == 3

CountCallers == {"c1", "c2"}
CountRates == {0, 1}
MalformedReplies == {NoReply, ArrayReply(<< IntReply(1), IntReply(0) >>)}

\* script.Run returns a value that is not the reply of the script
ExecMalformed(c) ==
    /\ call[c].pc = "sent"
    /\ reachable
    /\ \E raw \in MalformedReplies :
          call' = [call EXCEPT ![c].pc = "replied", ![c].evalErr = FALSE,
                               ![c].raw = raw, ![c].tokens = 0,
                               ![c].burst = 0, ![c].rate = 0]
    /\ UNCHANGED <<defaultBurst, defaultRate, clock, store, ncalls, lastExec,
                   run, lastCapacity, touched, parseIn, parseOut, serverVars,
                   execs, grantVars>>

InitCount == NoDecoding /\ \E rate \in CountRates : New(2, rate)

NextCount ==
    \/ \E c \in CountCallers : AllowCall(c, "a", 1, 0, 0, MaxCountCalls)
    \/ \E c \in CountCallers : PeekCall(c, "a", 0, 0, MaxCountCalls)
    \/ \E c \in CountCallers : Exec(c)
    \/ \E c \in CountCallers : ExecFail(c)
    \/ \E c \in CountCallers : ExecMalformed(c)
    \/ \E c \in CountCallers : ReplyLost(c)
    \/ \E c \in CountCallers : AllowReturn(c)
    \/ StoreDown
    \/ StoreUp

SpecCount == InitCount /\ [][NextCount]_vars

----------------------------------------------------------------------------
(* Claims *)

\* C1: for every key, the stored tokens value is never negative and never
\* exceeds the capacity used by the most recent call on that key, whatever
\* capacity, rate, requested and now the limiter client passes.
C1_CapacityInvariant ==
    \A k \in RedisKeys :
        store[k].present =>
            /\ store[k].tokens >= 0
            /\ store[k].tokens <= Units(lastCapacity[k])

\* C3: Peek invokes the script with requested = 0, so it never decreases the
\* stored tokens of the key.
C3_PeekDoesNotConsume ==
    lastExec.op = "Peek" =>
        /\ lastExec.requested = 0
        /\ lastExec.after.tokens >= lastExec.refilled

\* C4: an execution requesting k tokens stores either the refilled level
\* minus k, having allowed, or exactly the refilled level, having denied;
\* the level of the key's bucket in the store is never anything between.
C4_MultiTokenAtomicity ==
    lastExec.key # "" =>
        LET e == lastExec
            level == Min(Units(e.capacity),
                         (IF e.live THEN e.before.tokens ELSE Units(e.capacity))
                           + e.elapsed * e.rate)
        IN  /\ \/ e.allowed = 1 /\ e.after.tokens = level - Units(e.requested)
               \/ e.allowed = 0 /\ e.after.tokens = level
            /\ e.allowed = 1 <=> level >= Units(e.requested)
            /\ store[e.key].present => store[e.key].tokens = e.after.tokens

\* C4 witness: a request for two tokens was denied with one token in the
\* bucket, and the bucket still holds that token
C4_Witness ==
    /\ lastExec.requested = 2
    /\ lastExec.allowed = 0
    /\ lastExec.refilled >= Units(1)
    /\ store[lastExec.key].tokens = lastExec.refilled

\* C9: the script is never invoked with rate <= 0.
C9_RateRejected ==
    /\ \A c \in Callers : call[c].pc = "sent" => call[c].rateArg > 0
    /\ lastExec.key # "" => lastExec.rate > 0

\* C5: a call on one key leaves the stored tokens, last_ts and expiry of
\* every other key unchanged, and the first call on a key, whatever was done
\* to other keys, is admitted from the key's own full capacity:
\* remaining = capacity - requested.
C5_KeyIsolation ==
    [][\A c \in Callers :
         /\ (call[c].pc = "sent" /\ call'[c].pc = "replied") =>
               \A k \in RedisKeys \ {call[c].redisKey} : store'[k] = store[k]
         /\ (/\ call[c].pc = "replied" /\ call'[c].pc = "idle"
             /\ call[c].first
             /\ call[c].requested <= call[c].capacity
             /\ ~call'[c].result.err) =>
               /\ call'[c].result.Allowed
               /\ call'[c].result.Remaining = call[c].capacity - call[c].requested
      ]_vars

\* C5 witness: key "a" is exhausted and the first call on key "b" has
\* returned, admitted from a full bucket
C5_Witness ==
    /\ store[RedisKey("a")].present
    /\ store[RedisKey("a")].tokens = 0
    /\ lastExec.key = RedisKey("b")
    /\ \E c \in Callers :
          /\ call[c].result.returned
          /\ call[c].first
          /\ call[c].result.Allowed
          /\ call[c].result.Remaining = call[c].capacity - call[c].requested

\* C6: from the same store state and the same now, Allow(key, t, 0, 0) gives
\* the same Result and the same stored state as Allow(key, t, defaultBurst,
\* defaultRate); an override <= 0 is replaced by the default and a positive
\* override reaches the script unchanged.
C6_DefaultsRoundTrip ==
    LET Outcome(key, tokens, burst, rate) ==
            LET a == AllowArgs(tokens, burst, rate)
                r == Script(store[RedisKey(key)], a.capacity, a.rate, clock,
                            a.requested, clock)
            IN  [bucket |-> r.bucket, result |-> ParseReply(r.err, r.reply)]
    IN  /\ \A key \in Keys, tokens \in TokenArgs :
              Outcome(key, tokens, 0, 0)
                = Outcome(key, tokens, defaultBurst, defaultRate)
        /\ \A c \in Callers :
              call[c].pc = "sent" =>
                 /\ call[c].capacity =
                       (IF call[c].burst > 0 THEN call[c].burst ELSE defaultBurst)
                 /\ call[c].rateArg =
                       (IF call[c].rate > 0 THEN call[c].rate ELSE defaultRate)

\* C6 witness: a call with burst = 0 and rate = 0 is on its way to the
\* script with the defaults, after an earlier call changed the bucket
C6_Witness ==
    /\ lastExec.key = RedisKey("a")
    /\ \E c \in Callers :
          /\ call[c].pc = "sent" /\ call[c].op = "Allow" /\ call[c].key = "a"
          /\ call[c].burst = 0 /\ call[c].rate = 0
          /\ call[c].capacity = defaultBurst /\ call[c].rateArg = defaultRate

\* C2: when every caller issues Allow(key, 1, C, 0) once on a fresh key of a
\* limiter built with default burst C and default rate 0, every call returns
\* without error and exactly min(N, C) of the N calls are allowed.
C2_ExactAdmission ==
    (\A c \in Callers : call[c].result.returned) =>
        /\ \A c \in Callers : ~call[c].result.err
        /\ Cardinality({c \in Callers : call[c].result.Allowed})
              = Min(Cardinality(Callers), defaultBurst)

\* C7: on a fresh key with capacity C (rate > 0), consecutive single-token
\* Allow calls between which the script measures no elapsed time are allowed
\* C times with remaining = C-1, ..., 0 and limit = C, and the next one is
\* denied with retry_after > 0; in every result, remaining is the floor of
\* the stored tokens and limit is the capacity used.
C7_BurstCountdown ==
    \A c \in Callers :
        (call[c].result.returned /\ call[c].op = "Allow") =>
            LET r == call[c].result
                C == call[c].capacity
                i == call[c].pos
            IN  /\ (1 <= i /\ i <= C) =>
                      ~r.err /\ r.Allowed /\ r.Remaining = C - i /\ r.Limit = C
                /\ i = C + 1 =>
                      ~r.err /\ ~r.Allowed /\ r.RetryAfter.n > 0
                /\ ~r.err =>
                      /\ r.Remaining = FloorDiv(call[c].level, TicksPerSec)
                      /\ r.Limit = C

\* C7 witness: the fourth call of a countdown on a bucket of capacity 3 was
\* denied with a positive retry_after
C7_Witness ==
    \E c \in Callers :
        /\ call[c].result.returned
        /\ call[c].capacity = 3
        /\ call[c].pos = 4
        /\ ~call[c].result.Allowed
        /\ call[c].result.RetryAfter.n > 0

C10_MalformedReplyIsError ==
    LET e == parseIn.elems
        WellFormed ==
            /\ parseIn.array
            /\ Len(e) = 5
            /\ \A i \in 1..4 : e[i].kind = "int"
            /\ \/ e[5].kind = "int"
               \/ e[5].kind = "str" /\ e[5].numeric
    IN  (parseOut.returned /\ ~WellFormed) => parseOut.err

C12_LastRefillMonotone ==
    (lastExec.key # "" /\ lastExec.live /\ lastExec.after.present) =>
        lastExec.after.last_ts >= lastExec.before.last_ts

\* C13: an execution of the script either commits everything and returns
\* its 5-tuple, or has no effect: when the invocation returned an error, the
\* stored tokens and last_ts of the key are what they were before the call.
C13_FailureAtomicity ==
    lastExec.key # "" =>
        IF lastExec.err
        THEN /\ lastExec.after.present = lastExec.live
             /\ lastExec.live =>
                   /\ lastExec.after.tokens = lastExec.before.tokens
                   /\ lastExec.after.last_ts = lastExec.before.last_ts
        ELSE /\ lastExec.after.present => lastExec.after.expire_at # NoExpiry
             /\ \A c \in Callers :
                   (call[c].pc = "replied" /\ ~call[c].evalErr) =>
                       call[c].raw.array /\ Len(call[c].raw.elems) = 5

\* C14: the server's Allow and Peek, given key = "", answer InvalidArgument
\* without calling the limiter: no call is sent to the store, no key's
\* stored state changes and no counter is incremented.
C14_EmptyKeyRejected ==
    [][\A c \in Callers :
         /\ (rpc'[c] # rpc[c] /\ rpc'[c].key = ""
                /\ rpc'[c].op \in {"Allow", "Peek"}) =>
               /\ rpc'[c].pc = "done"
               /\ rpc'[c].code = "InvalidArgument"
               /\ call' = call /\ ncalls' = ncalls /\ execs' = execs
               /\ store' = store
               /\ metric' = metric
         /\ call'[c].pc = "sent" => call'[c].key # ""
      ]_vars

\* C14 witness: after a call consumed a token of key "a", a request with an
\* empty key was rejected
C14_Witness ==
    /\ store[RedisKey("a")].present
    /\ metric.allowed = 1
    /\ \E c \in Callers :
          /\ rpc[c].pc = "done" /\ rpc[c].op = "Peek" /\ rpc[c].key = ""
          /\ rpc[c].code = "InvalidArgument"

\* C15: HealthCheck always returns a response and no RPC error: NOT_SERVING
\* with the error text of Ping exactly when Ping fails, SERVING with store
\* status "ok" exactly when it succeeds.
C15_HealthCheckNeverFails ==
    [][\A c \in Callers :
         (rpc'[c] # rpc[c] /\ rpc'[c].op = "HealthCheck") =>
            /\ rpc'[c].pc = "done"
            /\ rpc'[c].code = "OK"
            /\ reachable =>
                  rpc'[c].status = "SERVING" /\ rpc'[c].redisStatus = "ok"
            /\ ~reachable =>
                  /\ rpc'[c].status = "NOT_SERVING"
                  /\ rpc'[c].redisStatus \in PingErrors
      ]_vars

\* C15 witness: one health check answered NOT_SERVING with the error text
\* while the store was away, a later one SERVING
C15_Witness ==
    \E c, d \in Callers :
        /\ rpc[c].op = "HealthCheck" /\ rpc[c].code = "OK"
        /\ rpc[c].status = "NOT_SERVING" /\ rpc[c].redisStatus = "i/o timeout"
        /\ rpc[d].op = "HealthCheck" /\ rpc[d].code = "OK"
        /\ rpc[d].status = "SERVING" /\ rpc[d].redisStatus = "ok"
        /\ reachable

\* C16: every Result with allowed = true has retry_after = 0, and every
\* Result with allowed = false has retry_after = (requested - refilled
\* tokens) / rate > 0, the level being the one before the denial.
C16_RetryAfterZeroOnAdmission ==
    \A c \in Callers :
        (call[c].result.returned /\ ~call[c].result.err) =>
            LET r == call[c].result
            IN  /\ r.Allowed => r.RetryAfter = Zero
                /\ ~r.Allowed =>
                      /\ r.RetryAfter.n > 0
                      /\ r.RetryAfter =
                            Ratio(Units(call[c].requested) - call[c].level,
                                  call[c].rateArg * TicksPerSec)

\* C17: when an Allow call for k tokens is denied with retry_after = d at
\* time now, the same call (same key, k, capacity and rate) repeated at
\* now + d with no other call on the key in between is allowed, for every
\* k >= 1, also k greater than the capacity.
C17_RetryAfterSufficient ==
    lastExec.retried => (lastExec.allowed = 1 /\ ~lastExec.err)

\* C18: for a key used with fixed capacity C and rate r by callers that read
\* one shared clock, whatever the order in which the store runs their calls,
\* the tokens granted on the key up to any time T never exceed
\* C + r * (T - time of first access).
C18_RateBounded ==
    \A k \in RedisKeys :
        firstAt[k] >= 0 =>
            Units(granted[k])
                <= Units(defaultBurst) + defaultRate * (clock - firstAt[k])

\* C19: every execution, allowed or denied, stores last_ts = now and the
\* refilled level (less what it granted); so, for non-decreasing now and
\* fixed capacity and rate, a denied call put between two calls does not
\* change the level the later call sees, min(capacity, earlier level +
\* rate * total elapsed time).
C19_DeniedKeepsRefill ==
    /\ (lastExec.key # "" /\ lastExec.after.present) =>
          /\ lastExec.after.last_ts = lastExec.now
          /\ lastExec.after.tokens =
                lastExec.refilled - lastExec.allowed * Units(lastExec.requested)
    /\ \A k \in RedisKeys :
          Live(store[k], clock) =>
             \A t1, t2 \in BurstInstants :
                (clock <= t1 /\ t1 <= t2 /\ store[k].last_ts <= t1) =>
                   LET C == defaultBurst
                       r == defaultRate
                       denied == Script(store[k], C, r, t1, C + 1, clock)
                   IN  /\ denied.allowed = 0
                       /\ Refill(denied.bucket, C, r, t2, clock)
                             = Refill(store[k], C, r, t2, clock)
                       /\ Refill(store[k], C, r, t2, clock)
                             = Min(Units(C), store[k].tokens
                                     + r * (t2 - store[k].last_ts))

\* C20: every result has reset_at >= now, reset_at being ceil(now) when the
\* tokens after the decision equal the capacity and ceil(now + (capacity -
\* tokens) / rate) otherwise, allowed or not; and with no call on the key in
\* between, an execution with requested = 0 at any time >= reset_at reports
\* remaining = capacity.
C20_ResetAt ==
    /\ \A c \in Callers :
          (call[c].pc = "replied" /\ ~call[c].evalErr) =>
             LET reset == call[c].raw.elems[4].n
                 C == call[c].capacity
                 r == call[c].rateArg
             IN  /\ reset * TicksPerSec >= call[c].now
                 /\ reset = IF call[c].level = Units(C)
                            THEN CeilDiv(call[c].now, TicksPerSec)
                            ELSE CeilDiv(call[c].now * r + (Units(C) - call[c].level),
                                         r * TicksPerSec)
    /\ (lastExec.key # "" /\ ~lastExec.err) =>
          LET e == lastExec
              reset == ResetAt(e.after.tokens, e.capacity, e.rate, e.now)
          IN  \A t \in Instants \cup {reset * TicksPerSec} :
                 (t >= clock /\ t >= reset * TicksPerSec) =>
                    LET peek == Script(store[e.key], e.capacity, e.rate, t, 0, t)
                    IN  /\ ~peek.err
                        /\ peek.reply.elems[2].n = e.capacity

\* C21: an execution of the script with requested = 0 always succeeds and
\* takes nothing: for every stored state, capacity > 0, rate > 0 and now, it
\* returns allowed = 1 and retry_after = 0 and stores tokens equal to the
\* refilled level min(capacity, tokens + max(0, now - last_ts) * rate).
C21_ZeroRequest ==
    \A k \in RedisKeys, C \in {2, 3}, r \in {1, 10}, t \in Instants :
        t >= clock =>
            LET b == store[k]
                x == Script(b, C, r, t, 0, t)
                tokens == IF Live(b, t) THEN b.tokens ELSE Units(C)
                last == IF Live(b, t) THEN b.last_ts ELSE t
            IN  /\ ~x.err
                /\ x.allowed = 1
                /\ x.reply.elems[1] = IntReply(1)
                /\ x.reply.elems[5] = NumStrReply(Zero)
                /\ x.bucket.tokens
                      = Min(Units(C), tokens + Max(0, t - last) * r)

C23_ExpiryUnobservable ==
    (lastExec.key # "" /\ store[lastExec.key].present) =>
        LET e == lastExec
            b == store[e.key]
            kept == [b EXCEPT !.expire_at = NoExpiry]
        IN  \A t \in BurstInstants, requested \in {1, 2} :
               (t >= clock /\ t >= b.last_ts) =>
                  LET x == Script(b, e.capacity, e.rate, t, requested, t)
                      y == Script(kept, e.capacity, e.rate, t, requested, t)
                  IN  /\ x.err = y.err
                      /\ x.reply = y.reply
                      /\ x.bucket.present = y.bucket.present
                      /\ x.bucket.tokens = y.bucket.tokens
                      /\ x.bucket.last_ts = y.bucket.last_ts

\* C24: every Allow/Peek call that returns an error (script or transport
\* error, malformed reply) increments the store error counter exactly once;
\* every call, failed or not, records exactly one latency observation; a
\* call that returns a Result never increments the error counter.
C24_ErrorCounting ==
    [][LET returning ==
              {c \in Callers : call[c].pc = "replied" /\ call'[c].pc = "idle"}
       IN  /\ returning = {} =>
                 /\ metric'.redisErrors = metric.redisErrors
                 /\ metric'.latency = metric.latency
           /\ \A c \in returning :
                 /\ metric'.latency = metric.latency + 1
                 /\ call'[c].result.err =>
                       metric'.redisErrors = metric.redisErrors + 1
                 /\ ~call'[c].result.err =>
                       metric'.redisErrors = metric.redisErrors
      ]_vars

====
